---- MODULE Spec2Model ----
(***************************************************************************)
(* Model of the secure sampling helpers and the passphrase composer of     *)
(* MiscellaneousAPI (src/main.py).                                         *)
(*                                                                         *)
(* A Python str is modelled as a sequence of one-character strings, a      *)
(* Python list as a sequence held in a heap of list objects, so that       *)
(* in-place list updates and aliasing are visible.                         *)
(***************************************************************************)
EXTENDS Integers, Sequences, FiniteSets, TLC

\* ------------------------------------------------------------------ bounds

\* Largest `words` query value the model sends (the code admits 1..20).
MaxWords == 4

\* Largest sample_size handed to _secure_sample when it is called directly.
MaxSample == 5

\* Direct calls of _secure_randint take min_value, max_value in -MaxInt..MaxInt.
MaxInt == 4

\* ------------------------------------------------------- Python str helpers

LowerAlphabet ==
    << "a", "b", "c", "d", "e", "f", "g", "h", "i", "j", "k", "l", "m",
       "n", "o", "p", "q", "r", "s", "t", "u", "v", "w", "x", "y", "z" >>

UpperAlphabet ==
    << "A", "B", "C", "D", "E", "F", "G", "H", "I", "J", "K", "L", "M",
       "N", "O", "P", "Q", "R", "S", "T", "U", "V", "W", "X", "Y", "Z" >>

DigitChars == << "0", "1", "2", "3", "4", "5", "6", "7", "8", "9" >>

IsLowerChar(c) == \E i \in DOMAIN LowerAlphabet : LowerAlphabet[i] = c

IsUpperChar(c) == \E i \in DOMAIN UpperAlphabet : UpperAlphabet[i] = c

IsCasedChar(c) == IsLowerChar(c) \/ IsUpperChar(c)

LowerChar(c) ==
    IF IsUpperChar(c)
    THEN LowerAlphabet[CHOOSE i \in DOMAIN UpperAlphabet : UpperAlphabet[i] = c]
    ELSE c

UpperChar(c) ==
    IF IsLowerChar(c)
    THEN UpperAlphabet[CHOOSE i \in DOMAIN LowerAlphabet : LowerAlphabet[i] = c]
    ELSE c

\* str.lower()
LowerWord(w) == [i \in DOMAIN w |-> LowerChar(w[i])]

\* str.upper()
UpperWord(w) == [i \in DOMAIN w |-> UpperChar(w[i])]

\* str.title(): a cased character is uppercased when the character before it
\* is not cased (or there is none), and lowercased otherwise.
TitleWord(w) ==
    [i \in DOMAIN w |->
        IF i = 1 \/ ~IsCasedChar(w[i - 1]) THEN UpperChar(w[i]) ELSE LowerChar(w[i])]

\* str(d) for a digit 0..9
Str(d) == << DigitChars[d + 1] >>

\* `sub in s` on strings
IsSubstring(sub, s) ==
    \E i \in 0..(Len(s) - Len(sub)) : SubSeq(s, i + 1, i + Len(sub)) = sub

\* s.replace(old, ""): removes the non-overlapping occurrences, left to right
RECURSIVE Replace(_, _)
Replace(s, old) ==
    IF old = << >> \/ Len(s) < Len(old) THEN s
    ELSE IF SubSeq(s, 1, Len(old)) = old
         THEN Replace(SubSeq(s, Len(old) + 1, Len(s)), old)
         ELSE << Head(s) >> \o Replace(Tail(s), old)

\* sep.join(list)
RECURSIVE StrJoin(_, _)
StrJoin(sep, list) ==
    IF list = << >> THEN << >>
    ELSE IF Len(list) = 1 THEN list[1]
    ELSE list[1] \o sep \o StrJoin(sep, Tail(list))

\* ------------------------------------------------------------- model inputs

apple == << "a", "p", "p", "l", "e" >>
banana == << "b", "a", "n", "a", "n", "a" >>
cherry == << "c", "h", "e", "r", "r", "y" >>
yoyo == << "y", "o", "-", "y", "o" >>
Ab == << "A", "b" >>

\* Contents eff_wordlist.txt may have when the module is imported.
WordLists ==
    { << apple, banana, cherry >>, << yoyo, Ab >>, << >> }

\* Sequences handed to _secure_sample when it is called directly.
ItemLists ==
    WordLists \cup { << Ab, Ab >>, << apple, yoyo, apple, Ab >> }

\* Values of the `separator` query parameter the model sends.
Separators ==
    { << >>, << "-" >>, << "!" >>, << "#" >>, << "&" >>, << "5" >>,
      << "!", "@", "#" >>, << "@", "!" >> }

\* The values the Literal type of `case` admits.
CaseModes == { "lower", "upper", "title", "camel" }

\* The case modes the model passes to the handler body: the four of the
\* Literal type and one outside it, which reaches the final else branch.
CaseInputs == CaseModes \cup { "mixed" }

\* ---------------------------------------------------------- list objects

PASSPHRASE_WORD_LIST == "PASSPHRASE_WORD_LIST"

\* "items" is the argument list of a direct call of _secure_sample.
Refs == { PASSPHRASE_WORD_LIST, "items", "sampled_items", "comprehension" }

NoRef == "unset"

\* result before the handler has produced one
NoResult == << "<none>" >>

\* ------------------------------------------------------------ the helpers

\* secrets.randbelow(n): any value of 0..n-1 (it raises ValueError for n <= 0)
RandBelow(n) == 0..(n - 1)

RangeSizeOffByOne(min, max) == max - min

\* _secure_randint: range_size
RangeSize(min, max) == max - min + 1

\* _secure_randint: the values a call can return
SecureRandint(min, max) == { min + random_offset : random_offset \in RandBelow(RangeSize(min, max)) }

\* _secure_choice: the values a call can return
SecureChoice(s) == { s[index + 1] : index \in RandBelow(Len(s)) }

NeverExceeds(size, n) == FALSE

\* _secure_sample: `sample_size > len(items)`
ExceedsPopulation(size, n) == size > n

LoopOneMore(n, size) == n <= size

\* _secure_sample: the while condition, `len(sampled_items) < sample_size`
LoopContinues(n, size) == n < size

NeverSeen(index, seen) == FALSE

\* _secure_sample: `index not in seen_indices`, negated
AlreadySeen(index, seen) == index \in seen

AliasItems(h, items_ref) == << items_ref, h >>

\* _secure_sample: `sampled_items = []` binds a new, empty list object
NewSampledItems(h, items_ref) ==
    << "sampled_items", [h EXCEPT !["sampled_items"] = << >>] >>

SymbolsUnfiltered(sep) == << "!", "@", "#", "$", "%", "&" >>

\* random_passphrase: the candidate symbols left after the separator filter
FilterSymbols(sep) ==
    LET random_symbols == << "!", "@", "#", "$", "%", "&" >>
    IN  IF IsSubstring(sep, random_symbols)
        THEN Replace(random_symbols, sep)
        ELSE random_symbols

CamelNoLower(list) == [i \in DOMAIN list |-> TitleWord(list[i])]

\* random_passphrase: the camel branch
CamelWords(list) ==
    LET titled == [i \in DOMAIN list |-> TitleWord(list[i])]
    IN  [titled EXCEPT ![1] = LowerWord(@)]

\* random_passphrase: the case branches; << heap, chosen_words >> afterwards.
\* A list comprehension builds a new list object and rebinds chosen_words;
\* the final else leaves both alone.
ApplyCase(h, cw, mode) ==
    LET rebind(list) == << [h EXCEPT !["comprehension"] = list], "comprehension" >>
    IN  CASE mode = "lower" -> rebind([i \in DOMAIN h[cw] |-> LowerWord(h[cw][i])])
          [] mode = "upper" -> rebind([i \in DOMAIN h[cw] |-> UpperWord(h[cw][i])])
          [] mode = "title" -> rebind([i \in DOMAIN h[cw] |-> TitleWord(h[cw][i])])
          [] mode = "camel" -> rebind(CamelWords(h[cw]))
          [] OTHER -> << h, cw >>

\* chosen_words[index] += s, in place
AppendTo(h, cw, index, s) == [h EXCEPT ![cw][index + 1] = @ \o s]

\* ------------------------------------------------------------------ state

VARIABLES
    heap,            \* the list objects: PASSPHRASE_WORD_LIST and the request's lists
    loaded,          \* what PASSPHRASE_WORD_LIST held when the module was imported
    pc,              \* position of the running call
    error,           \* the exception that ended the call, "none" otherwise
    words, numbers, symbols, separator, case,   \* parameters of random_passphrase
    items, sample_size,                         \* parameters of _secure_sample
    sampled_items, seen_indices,                \* locals of _secure_sample
    selected,        \* the indices accepted by _secure_sample, in order
    chosen_words,    \* the list chosen_words is bound to
    digit_index, digit,                         \* the draws of lines 161-162
    symbol_index, random_symbols, symbol,       \* the draws of lines 165-171
    result,          \* the joined passphrase
    entropy_used,    \* whether secrets.randbelow was called in this call
    min_value, max_value, ret                   \* _secure_randint called directly

vars ==
    << heap, loaded, pc, error, words, numbers, symbols, separator, case,
       items, sample_size, sampled_items, seen_indices, selected, chosen_words,
       digit_index, digit, symbol_index, random_symbols, symbol, result,
       entropy_used, min_value, max_value, ret >>

config == << words, numbers, symbols, separator, case >>
locals == << digit_index, digit, symbol_index, random_symbols, symbol >>
direct == << min_value, max_value, ret >>

\* No call is running: the word list holds `list`, a direct call of
\* _secure_sample would get `arg` and `k`, one of _secure_randint `lo` and `hi`.
Start(list, arg, k, lo, hi) ==
    /\ heap = [r \in Refs |-> IF r = PASSPHRASE_WORD_LIST THEN list
                              ELSE IF r = "items" THEN arg ELSE << >>]
    /\ loaded = list
    /\ pc = "idle"
    /\ error = "none"
    /\ words = 0 /\ numbers = FALSE /\ symbols = FALSE
    /\ separator = << >> /\ case = "title"
    /\ items = NoRef /\ sample_size = k
    /\ sampled_items = NoRef /\ seen_indices = {} /\ selected = << >>
    /\ chosen_words = NoRef
    /\ digit_index = -1 /\ digit = -1
    /\ symbol_index = -1 /\ random_symbols = << >> /\ symbol = ""
    /\ result = NoResult
    /\ entropy_used = FALSE
    /\ min_value = lo /\ max_value = hi /\ ret = 0

\* The module has been imported: the word list is loaded, no request is running.
Init == \E list \in WordLists : Start(list, << >>, 0, 0, 0)

\* The indices a draw can produce, over all the lists of the model.
Indices == 0..((CHOOSE n \in { Len(l) : l \in ItemLists } : \A l \in ItemLists : Len(l) <= n) - 1)

\* --------------------------------------------------------- _secure_sample

\* Entry of _secure_sample(items, sample_size): the size check, then the
\* two locals.
SecureSampleEnter(items_ref, size) ==
    /\ items' = items_ref
    /\ sample_size' = size
    /\ seen_indices' = {}
    /\ selected' = << >>
    /\ IF ExceedsPopulation(size, Len(heap[items_ref]))
       THEN /\ pc' = "error"
            /\ error' = "ValueError: sample size"
            /\ UNCHANGED << sampled_items, heap >>
       ELSE LET new == NewSampledItems(heap, items_ref)
            IN  /\ pc' = "sample"
                /\ error' = "none"
                /\ sampled_items' = new[1]
                /\ heap' = new[2]

\* One iteration of the while loop, drawing `index`.
Draw(index) ==
    /\ pc = "sample"
    /\ LoopContinues(Len(heap[sampled_items]), sample_size)
    /\ index \in RandBelow(Len(heap[items]))
    /\ entropy_used' = TRUE
    /\ IF ~AlreadySeen(index, seen_indices)
       THEN /\ seen_indices' = seen_indices \cup { index }
            /\ heap' = [heap EXCEPT ![sampled_items] = Append(@, heap[items][index + 1])]
            /\ selected' = Append(selected, index)
       ELSE UNCHANGED << seen_indices, heap, selected >>
    /\ UNCHANGED << loaded, pc, error, config, items, sample_size, sampled_items,
                    chosen_words, locals, result, direct >>

\* The loop condition fails: return sampled_items.
SampleReturn ==
    /\ pc = "sample"
    /\ ~LoopContinues(Len(heap[sampled_items]), sample_size)
    /\ chosen_words' = sampled_items
    /\ pc' = "returned"
    /\ UNCHANGED << heap, loaded, error, config, items, sample_size, sampled_items,
                    seen_indices, selected, locals, result, entropy_used, direct >>

\* ------------------------------------------------------ random_passphrase

\* GET /random-passphrase: the query parameters pass validation and the body
\* starts with the call of _secure_sample on the word list.
Request(w, n, sy, sep, c) ==
    /\ pc = "idle"
    /\ words' = w /\ numbers' = n /\ symbols' = sy /\ separator' = sep /\ case' = c
    /\ SecureSampleEnter(PASSPHRASE_WORD_LIST, w)
    /\ UNCHANGED << loaded, chosen_words, locals, result, entropy_used, direct >>

\* The if/elif chain on `case`.
CaseTransform ==
    /\ pc = "returned"
    /\ IF case = "camel" /\ heap[chosen_words] = << >>
       THEN /\ pc' = "error"
            /\ error' = "IndexError"
            /\ UNCHANGED << heap, chosen_words >>
       ELSE LET after == ApplyCase(heap, chosen_words, case)
            IN  /\ heap' = after[1]
                /\ chosen_words' = after[2]
                /\ pc' = "digit"
                /\ UNCHANGED error
    /\ UNCHANGED << loaded, config, items, sample_size, sampled_items, seen_indices,
                    selected, locals, result, entropy_used, direct >>

\* `if numbers:` and its body.
InjectDigit ==
    /\ pc = "digit"
    /\ IF ~numbers
       THEN /\ pc' = "symbol"
            /\ UNCHANGED << heap, error, digit_index, digit, entropy_used >>
       ELSE IF RangeSize(0, Len(heap[chosen_words]) - 1) <= 0
       THEN /\ pc' = "error"
            /\ error' = "ValueError: randbelow"
            /\ UNCHANGED << heap, digit_index, digit, entropy_used >>
       ELSE \E index \in SecureRandint(0, Len(heap[chosen_words]) - 1) :
            \E d \in SecureRandint(0, 9) :
                /\ digit_index' = index
                /\ digit' = d
                /\ heap' = AppendTo(heap, chosen_words, index, Str(d))
                /\ entropy_used' = TRUE
                /\ pc' = "symbol"
                /\ UNCHANGED error
    /\ UNCHANGED << loaded, config, items, sample_size, sampled_items, seen_indices,
                    selected, chosen_words, symbol_index, random_symbols, symbol,
                    result, direct >>

\* `if symbols:` and its body, then result = separator.join(chosen_words).
InjectSymbolAndJoin ==
    /\ pc = "symbol"
    /\ IF ~symbols
       THEN /\ result' = StrJoin(separator, heap[chosen_words])
            /\ pc' = "done"
            /\ UNCHANGED << heap, error, symbol_index, random_symbols, symbol, entropy_used >>
       ELSE IF RangeSize(0, Len(heap[chosen_words]) - 1) <= 0
       THEN /\ pc' = "error"
            /\ error' = "ValueError: randbelow"
            /\ UNCHANGED << heap, symbol_index, random_symbols, symbol, entropy_used, result >>
       ELSE \E index \in SecureRandint(0, Len(heap[chosen_words]) - 1) :
            /\ symbol_index' = index
            /\ random_symbols' = FilterSymbols(separator)
            /\ entropy_used' = TRUE
            /\ IF random_symbols' = << >>
               THEN /\ pc' = "error"
                    /\ error' = "ValueError: randbelow"
                    /\ UNCHANGED << heap, symbol, result >>
               ELSE \E c \in SecureChoice(random_symbols') :
                    /\ symbol' = c
                    /\ heap' = AppendTo(heap, chosen_words, index, << c >>)
                    /\ result' = StrJoin(separator, heap'[chosen_words])
                    /\ pc' = "done"
                    /\ UNCHANGED error
    /\ UNCHANGED << loaded, config, items, sample_size, sampled_items, seen_indices,
                    selected, chosen_words, digit_index, digit, direct >>

\* The response is sent (the text, or a 500 after an exception); the call's
\* locals and lists are gone and the next request can be served.
Respond ==
    /\ pc \in { "done", "error" }
    /\ heap' = [heap EXCEPT !["sampled_items"] = << >>, !["comprehension"] = << >>]
    /\ pc' = "idle"
    /\ error' = "none"
    /\ words' = 0 /\ numbers' = FALSE /\ symbols' = FALSE
    /\ separator' = << >> /\ case' = "title"
    /\ items' = NoRef /\ sample_size' = 0
    /\ sampled_items' = NoRef /\ seen_indices' = {} /\ selected' = << >>
    /\ chosen_words' = NoRef
    /\ digit_index' = -1 /\ digit' = -1
    /\ symbol_index' = -1 /\ random_symbols' = << >> /\ symbol' = ""
    /\ result' = NoResult
    /\ entropy_used' = FALSE
    /\ UNCHANGED << loaded, direct >>

\* The handler has no await: a request runs from Request to Respond before the
\* event loop starts another.
Next ==
    \/ \E w \in 1..MaxWords, n \in BOOLEAN, sy \in BOOLEAN,
          sep \in Separators, c \in CaseInputs : Request(w, n, sy, sep, c)
    \/ \E index \in Indices : Draw(index)
    \/ SampleReturn
    \/ CaseTransform
    \/ InjectDigit
    \/ InjectSymbolAndJoin
    \/ Respond

Spec == Init /\ [][Next]_vars

\* ------------------------------------------ _secure_sample called directly

SampleInit ==
    \E arg \in ItemLists, k \in 0..MaxSample : Start(<< >>, arg, k, 0, 0)

\* _secure_sample(items, sample_size) is called.
SampleCall ==
    /\ pc = "idle"
    /\ SecureSampleEnter("items", sample_size)
    /\ UNCHANGED << loaded, config, chosen_words, locals, result, entropy_used, direct >>

SampleNext ==
    \/ SampleCall
    \/ \E index \in Indices : Draw(index)
    \/ SampleReturn

SampleSpec == SampleInit /\ [][SampleNext]_vars

\* The entropy source is fair: an index that would be accepted is not withheld
\* forever; and the running call is not suspended forever.
FairSampleSpec ==
    /\ SampleSpec
    /\ WF_vars(SampleCall)
    /\ \A index \in Indices : WF_vars(Draw(index))
    /\ WF_vars(SampleReturn)

\* ------------------------------------------ _secure_randint called directly

RandintInit ==
    \E lo \in (-MaxInt)..MaxInt, hi \in (-MaxInt)..MaxInt :
        lo <= hi /\ Start(<< >>, << >>, 0, lo, hi)

\* _secure_randint(min_value, max_value) is called and returns.
RandintCall ==
    /\ pc = "idle"
    /\ IF RangeSize(min_value, max_value) <= 0
       THEN /\ pc' = "error"
            /\ error' = "ValueError: randbelow"
            /\ UNCHANGED << ret, entropy_used >>
       ELSE /\ ret' \in SecureRandint(min_value, max_value)
            /\ entropy_used' = TRUE
            /\ pc' = "returned"
            /\ UNCHANGED error
    /\ UNCHANGED << heap, loaded, config, items, sample_size, sampled_items,
                    seen_indices, selected, chosen_words, locals, result,
                    min_value, max_value >>

RandintSpec == RandintInit /\ [][RandintCall]_vars

\* ------------------------------------------------------------ properties

\* The list a finished call of _secure_sample returned.
Returned == heap[chosen_words]

\* The population _secure_sample draws from.
Population == heap[items]

SymbolSet == { "!", "@", "#", "$", "%", "&" }

\* The number of segments str.split(sep) yields for a non-empty sep.
RECURSIVE Occurrences(_, _)
Occurrences(s, sep) ==
    IF Len(s) < Len(sep) THEN 0
    ELSE IF SubSeq(s, 1, Len(sep)) = sep
         THEN 1 + Occurrences(SubSeq(s, Len(sep) + 1, Len(s)), sep)
         ELSE Occurrences(Tail(s), sep)

Segments(s, sep) == 1 + Occurrences(s, sep)

\* The words the running request selected, in order of selection.
SelectedWords == [j \in DOMAIN selected |-> loaded[selected[j] + 1]]

\* What the request returns when its words are cased by `casing` (a map from
\* position and word to the cased word), given the draws it made.
Expected(casing(_, _)) ==
    LET cased == [j \in DOMAIN SelectedWords |-> casing(j, SelectedWords[j])]
        withDigit == [j \in DOMAIN cased |->
            IF numbers /\ j = digit_index + 1 THEN cased[j] \o Str(digit) ELSE cased[j]]
        withSymbol == [j \in DOMAIN cased |->
            IF symbols /\ j = symbol_index + 1 THEN withDigit[j] \o << symbol >> ELSE withDigit[j]]
    IN  StrJoin(separator, withSymbol)

TitleCasing(j, w) == TitleWord(w)

CamelCasing(j, w) == IF j = 1 THEN LowerWord(w) ELSE TitleWord(w)

\* C1 as stated: a returned sample has exactly sample_size elements, pairwise
\* distinct as values, all of them elements of the population.
C1_DistinctValues ==
    (pc = "returned") =>
        /\ Len(Returned) = sample_size
        /\ \A i, j \in DOMAIN Returned : i # j => Returned[i] # Returned[j]
        /\ \A i \in DOMAIN Returned : \E p \in DOMAIN Population : Returned[i] = Population[p]

\* C1 amended: a returned sample has exactly sample_size elements, taken from
\* pairwise distinct positions of the population (so pairwise distinct as
\* values when the population holds no value twice).
C1_DistinctPositions ==
    (pc = "returned") =>
        /\ Len(Returned) = sample_size
        /\ \E f \in [DOMAIN Returned -> DOMAIN Population] :
              /\ \A i, j \in DOMAIN Returned : i # j => f[i] # f[j]
              /\ \A i \in DOMAIN Returned : Returned[i] = Population[f[i]]
        /\ ((\A p, q \in DOMAIN Population : p # q => Population[p] # Population[q])
              => \A i, j \in DOMAIN Returned : i # j => Returned[i] # Returned[j])

C1_Witness ==
    /\ pc = "returned"
    /\ sample_size = 4
    /\ Len(Population) = 4

\* C2: a sample size above the population size ends the call with the
\* sample-size error before any entropy draw and before any element is
\* selected; nothing is returned and no passphrase is produced.
C2_FailsBeforeDrawing ==
    (pc # "idle" /\ sample_size > Len(Population)) =>
        /\ pc = "error"
        /\ error = "ValueError: sample size"
        /\ ~entropy_used
        /\ seen_indices = {}
        /\ heap["sampled_items"] = << >>
        /\ chosen_words = NoRef
        /\ result = NoResult

C2_Witness ==
    /\ pc = "error"
    /\ words = Len(loaded) + 1
    /\ Len(loaded) > 0

\* C3: with a non-empty separator the returned string splits on the
\* separator into exactly `words` segments.
C3_SplitsIntoWordCount ==
    (pc = "done" /\ case \in CaseModes /\ separator # << >>) =>
        Segments(result, separator) = words

\* C4: when the separator is one of the six symbols, the appended symbol is
\* not the separator and is chosen among exactly the other five.
C4_SymbolAvoidsSeparator ==
    (pc = "done" /\ symbols /\ Len(separator) = 1 /\ separator[1] \in SymbolSet) =>
        /\ symbol # separator[1]
        /\ { random_symbols[i] : i \in DOMAIN random_symbols } = SymbolSet \ { separator[1] }
        /\ Len(random_symbols) = 5
        /\ symbol \in SecureChoice(random_symbols)
        /\ LET w == heap[chosen_words][symbol_index + 1] IN w[Len(w)] = symbol

C4_Witness ==
    /\ pc = "done"
    /\ symbols
    /\ separator = << "!" >>
    /\ symbol = "&"

\* C5: a case mode outside the four raises no error and yields the string
\* the mode "title" yields for the same words, flags, separator and draws.
C5_FallsBackToTitle ==
    /\ (pc = "error" /\ case \notin CaseModes) => words > Len(loaded)
    /\ (pc = "done" /\ case \notin CaseModes) => result = Expected(TitleCasing)

\* C6: in camel mode every word is title-cased, then the first word alone is
\* lowercased, and the words are still joined with the separator; apple,
\* banana, cherry with "-" and no digit or symbol give apple-Banana-Cherry.
C6_CamelLowersFirstWordOnly ==
    /\ (pc = "digit" /\ case = "camel") =>
          /\ Len(heap[chosen_words]) = words
          /\ \A j \in DOMAIN SelectedWords :
                heap[chosen_words][j] = IF j = 1 THEN LowerWord(SelectedWords[j])
                                        ELSE TitleWord(SelectedWords[j])
    /\ (pc = "done" /\ case = "camel") => result = Expected(CamelCasing)
    /\ (/\ pc = "done" /\ case = "camel" /\ ~numbers /\ ~symbols
        /\ separator = << "-" >>
        /\ SelectedWords = << apple, banana, cherry >>) =>
          result = << "a", "p", "p", "l", "e", "-", "B", "a", "n", "a", "n", "a", "-",
                      "C", "h", "e", "r", "r", "y" >>

C6_Witness ==
    /\ pc = "done" /\ case = "camel" /\ ~numbers /\ ~symbols
    /\ separator = << "-" >>
    /\ SelectedWords = << apple, banana, cherry >>

\* C7: for min_value <= max_value the call returns a value of
\* min_value..max_value, and both ends are among the values it can return.
C7_RandintInclusive ==
    /\ pc # "error"
    /\ (pc = "returned") => (min_value <= ret /\ ret <= max_value)
    /\ min_value \in SecureRandint(min_value, max_value)
    /\ max_value \in SecureRandint(min_value, max_value)

C7_Witness ==
    /\ pc = "returned"
    /\ min_value < max_value
    /\ ret = max_value

\* C8: only the sampling step can fail; for 1 <= words <= len(word list) the
\* request never fails, the filtered symbol set is never empty, every later
\* step can be taken and the response is the full join.
C8_OnlySamplingFails ==
    /\ (pc = "error") => (error = "ValueError: sample size" /\ words > Len(loaded))
    /\ (pc # "idle" /\ words <= Len(loaded)) =>
          /\ pc # "error"
          /\ FilterSymbols(separator) # << >>
          /\ (pc \in { "returned", "digit", "symbol" }) =>
                ENABLED (CaseTransform \/ InjectDigit \/ InjectSymbolAndJoin)
          /\ (pc = "done") =>
                /\ result # NoResult
                /\ result = StrJoin(separator, heap[chosen_words])
                /\ Len(heap[chosen_words]) = words

C8_Witness ==
    /\ pc = "done"
    /\ words = 3 /\ Len(loaded) = 3
    /\ numbers /\ symbols
    /\ case = "camel"
    /\ separator = << "!", "@", "#" >>
    /\ digit_index = symbol_index

\* C9: the word list holds what it held when it was loaded.
C9_WordListUnchanged == heap[PASSPHRASE_WORD_LIST] = loaded

C9_Witness ==
    /\ pc = "done"
    /\ numbers /\ symbols
    /\ case = "upper"
    /\ words = Len(loaded)
    /\ heap[chosen_words] # loaded
    /\ heap[PASSPHRASE_WORD_LIST] = loaded

\* C10: a draw adds one new index and its element, or changes nothing; the
\* list never outgrows sample_size; the loop is left exactly with sample_size
\* distinct indices; and under a fair entropy source it is left.
C10_LoopTerminates ==
    /\ [][(pc = "sample" /\ pc' = "sample") =>
            \/ /\ seen_indices' = seen_indices
               /\ heap'[sampled_items] = heap[sampled_items]
            \/ \E index \in DOMAIN Population :
               /\ (index - 1) \notin seen_indices
               /\ seen_indices' = seen_indices \cup { index - 1 }
               /\ heap'[sampled_items] = Append(heap[sampled_items], Population[index])]_vars
    /\ []((pc \in { "sample", "returned" }) =>
            /\ Len(heap[sampled_items]) <= sample_size
            /\ Cardinality(seen_indices) = Len(heap[sampled_items]))
    /\ []((pc = "sample") =>
            ((ENABLED SampleReturn) <=> (Cardinality(seen_indices) = sample_size)))
    /\ ((pc = "sample") ~> (pc = "returned" /\ Cardinality(seen_indices) = sample_size))

C10_Witness ==
    /\ pc = "returned"
    /\ sample_size = Len(Population)
    /\ sample_size >= 3

====
